---- MODULE Spec2Model ----
(***************************************************************************)
(* State-machine model of the subscriber migration commands:               *)
(*   migrate_subscribers            (Identity Builder: Pass A, Pass B)     *)
(*   update_gdpr_from_subscribers   (Consent Backfill)                     *)
(* Tables are sequences; a row's id is its position in the table.          *)
(***************************************************************************)
EXTENDS Integers, Sequences, FiniteSets, TLC

\* ------------------------------------------------------------------ bounds
MaxSubs == 2
MaxSms == 1
MaxClients == 2
MaxUsers == 1
MaxBatch == 2
MaxRuns == 2
MaxTime == 3
MaxSharers == 2
MaxShared == 1

\* ------------------------------------------------------------- value domains
\* None, and every other falsy value of an optional column
NULL == "NULL"
Emails == {"e1", "e2"}
Phones == {"p1", "p2"}
Times == 1..MaxTime
\* the builder never reads a legacy create_date: its snapshots carry one value
SnapshotTimes == {1}

VARIABLES
  subs,            \* Subscriber table
  sms,             \* SubscriberSMS table
  clients,         \* Client table
  users,           \* User table
  user_by_email,   \* dict email -> User object
  user_by_phone,   \* dict phone -> list of User objects
  buffer,          \* candidates of the current batch
  pc,              \* position of the command
  idx,             \* position of the loop over the source queryset
  run,             \* number of the run of the command
  flush_threshold, \* len(buffer) at which the loop flushes
  now,             \* the clock read by create_date
  non_unique_csv,  \* non_unique_client_phones.csv
  sub_conflicts_csv,   \* subscriber_conflicts.csv
  sms_conflicts_csv,   \* subscribersms_conflicts.csv
  bf_user_by_email,    \* backfill: dict email -> User object
  bf_users_with_phone, \* backfill: dict phone -> User object
  updates,         \* backfill: list of staged User objects
  unique_updates,  \* backfill: the staged objects, one per id, then the merges
  updated,         \* backfill: len(final_updates) of the last run
  tx,              \* rows written in the open transaction.atomic() block
  to_insert,       \* _flush_users: the candidates that passed the re-filter
  flush_pc,        \* position inside _flush_users
  apps_ready,      \* django.apps.apps.ready
  installed,       \* the models of the app registry, as <<app label, class name>>
  app_label,       \* settings.GDPR_MODELS_APP_LABEL
  resolved,        \* the model classes handle holds, by name
  origin,          \* history: for each User row, the record that produced it
  users0,          \* history: the User table when the current run started
  ref_users,       \* history: the User table a reference run ended with
  ref_sinks        \* history: the three csv files a reference run ended with

vars == <<subs, sms, clients, users, user_by_email, user_by_phone, buffer, pc,
          idx, run, flush_threshold, now, non_unique_csv, sub_conflicts_csv,
          sms_conflicts_csv, bf_user_by_email, bf_users_with_phone, updates,
          unique_updates, updated, tx, to_insert, flush_pc, apps_ready,
          installed, app_label, resolved, origin, users0, ref_users, ref_sinks>>

legacy == <<subs, sms, clients>>
sinks == <<non_unique_csv, sub_conflicts_csv, sms_conflicts_csv>>
builder == <<user_by_email, user_by_phone, buffer, flush_threshold, now, origin>>
backfill == <<bf_user_by_email, bf_users_with_phone, updates, unique_updates, updated>>
txn == <<tx, to_insert, flush_pc>>
registry == <<apps_ready, installed, app_label, resolved>>
reference == <<ref_users, ref_sinks>>

\* ------------------------------------------------------------------ helpers
SeqsUpTo(S, n) == UNION {[1..k -> S] : k \in 0..n}

Max(S) == CHOOSE x \in S : \A y \in S : y <= x

\* ------------------------------------------------------------------- tables
SubscriberRows(T) == [email : Emails, gdpr_consent : BOOLEAN, create_date : T]

SubscriberSMSRows(T) == [phone : Phones, gdpr_consent : BOOLEAN, create_date : T]

ClientRows == [email : Emails \cup {NULL}, phone : Phones \cup {NULL}]

UserRows(T) == [email : Emails \cup {NULL}, phone : Phones \cup {NULL},
                gdpr_consent : BOOLEAN, create_date : T]

\* a csv file: absent, or a header followed by rows
NoFile == [exists |-> FALSE, rows |-> <<>>]

\* open(path, "w"); writeheader(); writerows(rows)
WriteFile(rows) == [exists |-> TRUE, rows |-> rows]

\* open(path, "x") with header and row, else open(path, "a") and the row
AppendConflict(file, row) == [exists |-> TRUE, rows |-> Append(file.rows, row)]

\* --------------------------------------------------------- model resolution
\* the class names _resolve_models looks up, in its order
ModelNames == <<"Subscriber", "SubscriberSMS", "Client", "User">>

AppLabels == {"core", "crm"}

\* the app registry of the project: the four models of core/models.py
CoreModels == {<<"core", ModelNames[k]>> : k \in DOMAIN ModelNames}

\* nothing resolved: the state of the command module after its import
Unresolved == << >>

Found(m) == [error |-> "none", model |-> m]

Raised(e) == [error |-> e, model |-> NULL]

\* mutant: the scan over all apps comes before the app-label override
GetModelByNameScanFirst(name) ==
  LET matches == {m \in installed : m[2] = name} IN
  IF ~apps_ready THEN Raised("RuntimeError")
  ELSE IF matches = {} THEN Raised("LookupError")
  ELSE IF Cardinality(matches) > 1 THEN Raised("LookupError")
  ELSE IF app_label # NULL
    THEN IF <<app_label, name>> \in installed
           THEN Found(<<app_label, name>>)
           ELSE Raised("LookupError")
  ELSE Found(CHOOSE m \in matches : TRUE)

\* _get_model_by_name: apps.get_model raises LookupError itself when the app
\* or the model is not installed
GetModelByName(name) ==
  LET matches == {m \in installed : m[2] = name} IN
  IF ~apps_ready THEN Raised("RuntimeError")
  ELSE IF app_label # NULL
    THEN IF <<app_label, name>> \in installed
           THEN Found(<<app_label, name>>)
           ELSE Raised("LookupError")
  ELSE IF matches = {} THEN Raised("LookupError")
  ELSE IF Cardinality(matches) > 1 THEN Raised("LookupError")
  ELSE Found(CHOOSE m \in matches : TRUE)

\* _resolve_models: the first lookup that raises ends it
ResolveError ==
  LET bad == {k \in DOMAIN ModelNames : GetModelByName(ModelNames[k]).error # "none"}
  IN IF bad = {} THEN "none"
     ELSE GetModelByName(ModelNames[CHOOSE k \in bad : \A j \in bad : k <= j]).error

\* the four classes _resolve_models returns
ResolvedModels ==
  [n \in {ModelNames[k] : k \in DOMAIN ModelNames} |-> GetModelByName(n).model]

\* ------------------------------------------------------------ preload (handle)
\* mutant: the email dict is filled inside the `if u.phone` loop
BuildUserByEmailPhoneOnly(us) ==
  [e \in {us[i].email : i \in {j \in DOMAIN us : us[j].phone # NULL}} |->
     us[Max({i \in DOMAIN us : us[i].email = e /\ us[i].phone # NULL})]]

\* {u.email: u for u in User.objects...}: the None key included, last row wins
BuildUserByEmail(us) ==
  [e \in {us[i].email : i \in DOMAIN us} |->
     us[Max({i \in DOMAIN us : us[i].email = e})]]

\* for u in User.objects: if u.phone: user_by_phone[u.phone].append(u)
BuildUserByPhone(us) ==
  [p \in {us[i].phone : i \in DOMAIN us} \ {NULL} |->
     LET hasPhone(u) == u.phone = p IN SelectSeq(us, hasPhone)]

\* {c.email: c for c in clients}: email -> id of the last Client with it
ClientByEmail ==
  [e \in {clients[i].email : i \in DOMAIN clients} |->
     Max({i \in DOMAIN clients : clients[i].email = e})]

\* phone -> ids of the Clients with that phone, in table order
ClientByPhone ==
  [p \in {clients[i].phone : i \in DOMAIN clients} \ {NULL} |->
     LET ids == [i \in DOMAIN clients |-> i]
         hasPhone(i) == clients[i].phone = p
     IN SelectSeq(ids, hasPhone)]

\* mutant: cnt > 2 instead of cnt > 1
NonUniqueClientPhonesOffByOne ==
  {p \in Phones : Cardinality({i \in DOMAIN clients : clients[i].phone = p}) > 2}

\* phones that more than one Client carries
NonUniqueClientPhones ==
  {p \in Phones : Cardinality({i \in DOMAIN clients : clients[i].phone = p}) > 1}

ClientRow(i) == [client_id |-> i, phone |-> clients[i].phone, email |-> clients[i].email]

\* the rows _write_non_unique_phones_csv writes
NonUniqueRows ==
  LET ids == [i \in DOMAIN clients |-> i]
      amb(i) == clients[i].phone \in NonUniqueClientPhones
      hit == SelectSeq(ids, amb)
  IN [k \in DOMAIN hit |-> ClientRow(hit[k])]

\* ------------------------------------------------------------ cache lookups
\* user_by_email.get(email) is a User
EmailClaimed(e) == e \in DOMAIN user_by_email

\* user_by_phone.get(phone) or []
UsersForPhone(p) == IF p \in DOMAIN user_by_phone THEN user_by_phone[p] ELSE <<>>

\* bool(user_by_phone.get(phone) or [])
PhoneClaimed(p) == UsersForPhone(p) # <<>>

\* client_by_phone.get(phone) or []
ClientsForPhone(p) == IF p \in DOMAIN ClientByPhone THEN ClientByPhone[p] ELSE <<>>

\* 2.a of Pass A: client.phone and client.phone in non_unique_client_phones
ClientPhoneNonUnique(c) == c.phone # NULL /\ c.phone \in NonUniqueClientPhones

\* mutant: the comparison of the emails is inverted
ConflictUsersSameEmail(c) ==
  LET same(uu) == uu.email = c.email IN SelectSeq(UsersForPhone(c.phone), same)

\* 2.b of Pass A: Users with the Client's phone and another email
ConflictUsers(c) ==
  LET other(uu) == uu.email # c.email IN SelectSeq(UsersForPhone(c.phone), other)

\* mutant: a User without phone is no conflict
SmsConflictPhoneOnly(c) ==
  /\ EmailClaimed(c.email)
  /\ user_by_email[c.email].phone # NULL
  /\ user_by_email[c.email].phone # c.phone

\* 2.c of Pass B: u_conflict and u_conflict.phone != client.phone
SmsConflict(c) == EmailClaimed(c.email) /\ user_by_email[c.email].phone # c.phone

\* --------------------------------------------------------------- candidates
\* User(email=..., phone=..., gdpr_consent=..., create_date=timezone.now())
NewUser(email, phone, consent) ==
  [email |-> email, phone |-> phone, gdpr_consent |-> consent, create_date |-> now]

Candidate(u, pass, id) == [u |-> u, src |-> [pass |-> pass, id |-> id]]

\* 2.c of Pass A
UserFromClientA(sub, c) == NewUser(c.email, c.phone, sub.gdpr_consent)

\* mutant: gdpr_consent is left at the column default
UserFromSubscriberDefaultConsent(sub) == NewUser(sub.email, NULL, FALSE)

\* 3 of Pass A
UserFromSubscriber(sub) == NewUser(sub.email, NULL, sub.gdpr_consent)

\* 2.a of Pass B
UserFromSms(m) == NewUser(NULL, m.phone, m.gdpr_consent)

\* 2.d of Pass B
UserFromClientB(m, c) == NewUser(c.email, c.phone, m.gdpr_consent)

\* -------------------------------------------------------------------- flush
\* the re-filter of _flush_users against the caches
Insertable(u) ==
  /\ ~(u.email # NULL /\ u.email \in DOMAIN user_by_email)
  /\ ~(u.phone # NULL /\ PhoneClaimed(u.phone))

ToInsert(buf) == LET keep(x) == Insertable(x.u) IN SelectSeq(buf, keep)

\* mutant: update_or_create keyed by email, so a stored row with the
\* candidate's email is overwritten
BulkCreateUpsert(us, ins) ==
  LET hit(i) == {k \in DOMAIN ins : ins[k].u.email = us[i].email}
      kept == [i \in DOMAIN us |-> IF hit(i) = {} THEN us[i] ELSE ins[Max(hit(i))].u]
      fresh(x) == \A i \in DOMAIN us : us[i].email # x.u.email
      rest == SelectSeq(ins, fresh)
  IN kept \o [k \in DOMAIN rest |-> rest[k].u]

\* the User table after bulk_create(to_insert): no column of User is unique,
\* so every row is stored
BulkCreate(us, ins) == us \o [k \in DOMAIN ins |-> ins[k].u]

\* mutant: the email lookup is not updated after bulk_create
CacheEmailsStale(ube, ins) == ube

\* for u in created_objs: if u.email: user_by_email[u.email] = u
CacheEmails(ube, ins) ==
  LET new == {ins[k].u.email : k \in DOMAIN ins} \ {NULL}
  IN [e \in DOMAIN ube \cup new |->
        IF e \in new THEN ins[Max({k \in DOMAIN ins : ins[k].u.email = e})].u
        ELSE ube[e]]

\* for u in created_objs: if u.phone: user_by_phone[u.phone].append(u)
CachePhones(ubp, ins) ==
  LET new == {ins[k].u.phone : k \in DOMAIN ins} \ {NULL}
      made == [k \in DOMAIN ins |-> ins[k].u]
  IN [p \in DOMAIN ubp \cup new |->
        LET hasPhone(u) == u.phone = p
        IN (IF p \in DOMAIN ubp THEN ubp[p] ELSE <<>>) \o SelectSeq(made, hasPhone)]

\* _flush_users(buf, user_by_email, user_by_phone); an empty buffer returns at once
Flush(buf) ==
  LET ins == ToInsert(buf) IN
  /\ users' = BulkCreate(users, ins)
  /\ origin' = origin \o [k \in DOMAIN ins |-> ins[k].src]
  /\ user_by_email' = CacheEmails(user_by_email, ins)
  /\ user_by_phone' = CachePhones(user_by_phone, ins)
  /\ buffer' = <<>>
  /\ now' = IF ins = <<>> THEN now ELSE now + 1

\* the tail of a loop iteration that appended: if len(buffer) >= threshold: flush
AppendAndMaybeFlush(cand) ==
  LET buf == Append(buffer, cand) IN
  IF Len(buf) >= flush_threshold
    THEN Flush(buf)
    ELSE /\ buffer' = buf
         /\ UNCHANGED <<users, origin, user_by_email, user_by_phone, now>>

\* ------------------------------------------------------------------ actions
\* handle: lookups and the non-unique csv, up to the call of Pass A
Preload ==
  /\ pc = "start"
  /\ user_by_email' = BuildUserByEmail(users)
  /\ user_by_phone' = BuildUserByPhone(users)
  /\ non_unique_csv' = WriteFile(NonUniqueRows)
  /\ buffer' = <<>>
  /\ idx' = 1
  /\ users0' = users
  /\ pc' = "passA"
  /\ UNCHANGED <<reference, txn, registry, legacy, users, run, flush_threshold, now, sub_conflicts_csv,
                 sms_conflicts_csv, origin, backfill>>

\* one iteration of the loop of _migrate_from_subscribers
MigrateSubscriber ==
  /\ pc = "passA"
  /\ idx <= Len(subs)
  /\ idx' = idx + 1
  /\ UNCHANGED <<reference, txn, registry, legacy, pc, run, flush_threshold, sms_conflicts_csv, users0, backfill>>
  /\ LET sub == subs[idx] IN
     IF EmailClaimed(sub.email)
       THEN UNCHANGED <<users, origin, user_by_email, user_by_phone, buffer, now,
                        non_unique_csv, sub_conflicts_csv>>
     ELSE IF sub.email \in DOMAIN ClientByEmail
       THEN LET cid == ClientByEmail[sub.email]
                c == clients[cid] IN
            IF ClientPhoneNonUnique(c)
              THEN /\ non_unique_csv' = AppendConflict(non_unique_csv, ClientRow(cid))
                   /\ UNCHANGED <<users, origin, user_by_email, user_by_phone,
                                  buffer, now, sub_conflicts_csv>>
            ELSE IF ConflictUsers(c) # <<>>
              THEN /\ sub_conflicts_csv' = AppendConflict(sub_conflicts_csv,
                        [subscriber_id |-> idx, subscriber_email |-> sub.email,
                         client_phone |-> c.phone, client_email |-> c.email])
                   /\ UNCHANGED <<users, origin, user_by_email, user_by_phone,
                                  buffer, now, non_unique_csv>>
            ELSE /\ AppendAndMaybeFlush(
                        Candidate(UserFromClientA(sub, c), "A", idx))
                 /\ UNCHANGED <<non_unique_csv, sub_conflicts_csv>>
     ELSE /\ AppendAndMaybeFlush(Candidate(UserFromSubscriber(sub), "A", idx))
          /\ UNCHANGED <<non_unique_csv, sub_conflicts_csv>>

\* the final flush of Pass A, and the cache reload of handle before Pass B
FinishSubscribers ==
  /\ pc = "passA"
  /\ idx > Len(subs)
  /\ LET ins == ToInsert(buffer) IN
     /\ users' = BulkCreate(users, ins)
     /\ origin' = origin \o [k \in DOMAIN ins |-> ins[k].src]
     /\ now' = IF ins = <<>> THEN now ELSE now + 1
  /\ user_by_email' = BuildUserByEmail(users')
  /\ user_by_phone' = BuildUserByPhone(users')
  /\ buffer' = <<>>
  /\ idx' = 1
  /\ pc' = "passB"
  /\ UNCHANGED <<reference, txn, registry, legacy, run, flush_threshold, sinks, users0, backfill>>

\* one iteration of the loop of _migrate_from_subscribersms
MigrateSubscriberSMS ==
  /\ pc = "passB"
  /\ idx <= Len(sms)
  /\ idx' = idx + 1
  /\ UNCHANGED <<reference, txn, registry, legacy, pc, run, flush_threshold, sub_conflicts_csv, users0, backfill>>
  /\ LET m == sms[idx]
         cs == ClientsForPhone(m.phone) IN
     IF PhoneClaimed(m.phone)
       THEN UNCHANGED <<users, origin, user_by_email, user_by_phone, buffer, now,
                        non_unique_csv, sms_conflicts_csv>>
     ELSE IF cs = <<>>
       THEN /\ AppendAndMaybeFlush(Candidate(UserFromSms(m), "B", idx))
            /\ UNCHANGED <<non_unique_csv, sms_conflicts_csv>>
     ELSE IF m.phone \in NonUniqueClientPhones
       THEN /\ non_unique_csv' =
                 [exists |-> TRUE,
                  rows |-> non_unique_csv.rows \o [k \in DOMAIN cs |-> ClientRow(cs[k])]]
            /\ UNCHANGED <<users, origin, user_by_email, user_by_phone, buffer, now,
                           sms_conflicts_csv>>
     ELSE LET c == clients[cs[1]] IN
          IF SmsConflict(c)
            THEN /\ sms_conflicts_csv' = AppendConflict(sms_conflicts_csv,
                      [subscribersms_id |-> idx, subscribersms_phone |-> m.phone,
                       client_phone |-> c.phone, client_email |-> c.email])
                 /\ UNCHANGED <<users, origin, user_by_email, user_by_phone, buffer,
                                now, non_unique_csv>>
          ELSE /\ AppendAndMaybeFlush(
                      Candidate(UserFromClientB(m, c), "B", idx))
               /\ UNCHANGED <<non_unique_csv, sms_conflicts_csv>>

\* the final flush of Pass B; handle returns
FinishSubscriberSMS ==
  /\ pc = "passB"
  /\ idx > Len(sms)
  /\ Flush(buffer)
  /\ pc' = "done"
  /\ UNCHANGED <<reference, txn, registry, legacy, idx, run, flush_threshold, sinks, users0, backfill>>

\* the command is invoked again on the same legacy tables
RunAgain ==
  /\ pc = "done"
  /\ run < MaxRuns
  /\ run' = run + 1
  /\ pc' = "start"
  /\ UNCHANGED <<reference, txn, registry, legacy, users, user_by_email, user_by_phone, buffer, idx,
                 flush_threshold, now, sinks, origin, users0, backfill>>

\* ------------------------------------------------------------ specification
InitialOrigin == [pass |-> "init", id |-> 0]

Init ==
  /\ subs \in SeqsUpTo(SubscriberRows(SnapshotTimes), MaxSubs)
  /\ sms \in SeqsUpTo(SubscriberSMSRows(SnapshotTimes), MaxSms)
  /\ clients \in SeqsUpTo(ClientRows, MaxClients)
  /\ users \in SeqsUpTo(UserRows(SnapshotTimes), MaxUsers)
  /\ flush_threshold \in 1..MaxBatch
  /\ user_by_email = << >>
  /\ user_by_phone = << >>
  /\ buffer = <<>>
  /\ pc = "start"
  /\ idx = 1
  /\ run = 1
  /\ now = Max(SnapshotTimes) + 1
  /\ non_unique_csv = NoFile
  /\ sub_conflicts_csv = NoFile
  /\ sms_conflicts_csv = NoFile
  /\ tx = <<>>
  /\ to_insert = <<>>
  /\ flush_pc = "idle"
  /\ apps_ready = TRUE
  /\ installed = CoreModels
  /\ app_label = NULL
  /\ resolved = ResolvedModels
  /\ origin = [i \in DOMAIN users |-> InitialOrigin]
  /\ users0 = users
  /\ ref_users = <<>>
  /\ ref_sinks = <<NoFile, NoFile, NoFile>>
  /\ bf_user_by_email = << >>
  /\ bf_users_with_phone = << >>
  /\ updates = <<>>
  /\ unique_updates = <<>>
  /\ updated = 0

Next ==
  \/ Preload
  \/ MigrateSubscriber
  \/ FinishSubscribers
  \/ MigrateSubscriberSMS
  \/ FinishSubscriberSMS
  \/ RunAgain

Spec == Init /\ [][Next]_vars


\* ============================================= _flush_users, statement by statement
\* len(buffer) >= 1000: the batch size of both loops
FlushThreshold == 1000

\* the loop of the current pass has ended: the final flush is next
LoopEnded ==
  \/ pc = "passA" /\ idx > Len(subs)
  \/ pc = "passB" /\ idx > Len(sms)

\* mutant: no transaction.atomic(): every INSERT commits on its own
TxWriteAutocommit(us, pend, cand) ==
  [table |-> Append(us, cand.u), pending |-> Append(pend, cand)]

\* an INSERT inside transaction.atomic(): the row is in the transaction, the
\* table other connections (and a restart) see is unchanged until the commit
TxWrite(us, pend, cand) == [table |-> us, pending |-> Append(pend, cand)]

\* the rows of a list of candidates
UsersOf(cands) == [k \in DOMAIN cands |-> cands[k].u]

\* _flush_users with a non-empty buffer: BEGIN, then the re-filter
FlushEnter ==
  /\ LoopEnded
  /\ flush_pc = "idle"
  /\ buffer # <<>>
  /\ to_insert' = ToInsert(buffer)
  /\ tx' = <<>>
  /\ flush_pc' = IF ToInsert(buffer) = <<>> THEN "caches" ELSE "bulk_create"
  /\ UNCHANGED <<reference, registry, legacy, users, user_by_email, user_by_phone, buffer, pc,
                 idx, run, flush_threshold, now, sinks, origin, users0, backfill>>

\* bulk_create(to_insert, ignore_conflicts=True): one INSERT statement
BulkCreateRow ==
  /\ flush_pc = "bulk_create"
  /\ Len(tx) < Len(to_insert)
  /\ LET w == TxWrite(users, tx, to_insert[Len(tx) + 1]) IN
     /\ users' = w.table
     /\ tx' = w.pending
     /\ flush_pc' = IF Len(w.pending) = Len(to_insert) THEN "caches" ELSE "bulk_create"
  /\ UNCHANGED <<reference, registry, legacy, user_by_email, user_by_phone, buffer, pc, idx,
                 run, flush_threshold, now, sinks, to_insert, origin, users0, backfill>>

\* an INSERT statement of bulk_create raises IntegrityError. bulk_create runs in
\* atomic(savepoint=False), so the exception marks the enclosing transaction
\* for rollback; the except branch of _flush_users catches it
BulkCreateRejected ==
  /\ flush_pc = "bulk_create"
  /\ Len(tx) < Len(to_insert)
  /\ flush_pc' = "fallback"
  /\ UNCHANGED <<reference, registry, legacy, users, user_by_email, user_by_phone, buffer, pc,
                 idx, run, flush_threshold, now, sinks, tx, to_insert, origin,
                 users0, backfill>>

\* the fallback: obj.save(force_insert=True) in a transaction marked for
\* rollback raises TransactionManagementError, which `except IntegrityError`
\* does not catch; it leaves the atomic block (ROLLBACK) and handle
FallbackSave ==
  /\ flush_pc = "fallback"
  /\ tx' = <<>>
  /\ flush_pc' = "idle"
  /\ pc' = "failed"
  /\ UNCHANGED <<reference, registry, legacy, users, user_by_email, user_by_phone, buffer, idx,
                 run, flush_threshold, now, sinks, to_insert, origin, users0, backfill>>

\* created_objs enter the caches, the atomic block exits (COMMIT), buffer.clear()
FlushCommit ==
  /\ flush_pc = "caches"
  /\ users' = users \o UsersOf(tx)
  /\ origin' = origin \o [k \in DOMAIN tx |-> tx[k].src]
  /\ user_by_email' = CacheEmails(user_by_email, to_insert)
  /\ user_by_phone' = CachePhones(user_by_phone, to_insert)
  /\ now' = IF to_insert = <<>> THEN now ELSE now + 1
  /\ buffer' = <<>>
  /\ tx' = <<>>
  /\ flush_pc' = "idle"
  /\ UNCHANGED <<reference, registry, legacy, pc, idx, run, flush_threshold, sinks, to_insert,
                 users0, backfill>>

\* the process dies inside the atomic block: the database rolls back
Crash ==
  /\ flush_pc # "idle"
  /\ tx' = <<>>
  /\ flush_pc' = "idle"
  /\ pc' = "crashed"
  /\ UNCHANGED <<reference, registry, legacy, users, user_by_email, user_by_phone, buffer, idx,
                 run, flush_threshold, now, sinks, to_insert, origin, users0, backfill>>

\* Pass A has flushed (or had nothing to flush): handle reloads the caches
ReloadCaches ==
  /\ pc = "passA"
  /\ idx > Len(subs)
  /\ flush_pc = "idle"
  /\ buffer = <<>>
  /\ user_by_email' = BuildUserByEmail(users)
  /\ user_by_phone' = BuildUserByPhone(users)
  /\ idx' = 1
  /\ pc' = "passB"
  /\ UNCHANGED <<reference, txn, registry, legacy, users, buffer, run, flush_threshold, now,
                 sinks, origin, users0, backfill>>

\* Pass B has flushed (or had nothing to flush): handle returns
Done ==
  /\ pc = "passB"
  /\ idx > Len(sms)
  /\ flush_pc = "idle"
  /\ buffer = <<>>
  /\ pc' = "done"
  /\ UNCHANGED <<reference, txn, registry, legacy, users, user_by_email, user_by_phone, buffer,
                 idx, run, flush_threshold, now, sinks, origin, users0, backfill>>

InitTxn ==
  /\ subs \in SeqsUpTo(SubscriberRows(SnapshotTimes), MaxSubs)
  /\ sms \in SeqsUpTo(SubscriberSMSRows(SnapshotTimes), MaxSms)
  /\ clients \in SeqsUpTo(ClientRows, MaxClients)
  /\ users \in SeqsUpTo(UserRows(SnapshotTimes), MaxUsers)
  /\ flush_threshold = FlushThreshold
  /\ user_by_email = << >>
  /\ user_by_phone = << >>
  /\ buffer = <<>>
  /\ pc = "start"
  /\ idx = 1
  /\ run = 1
  /\ now = Max(SnapshotTimes) + 1
  /\ non_unique_csv = NoFile
  /\ sub_conflicts_csv = NoFile
  /\ sms_conflicts_csv = NoFile
  /\ tx = <<>>
  /\ to_insert = <<>>
  /\ flush_pc = "idle"
  /\ apps_ready = TRUE
  /\ installed = CoreModels
  /\ app_label = NULL
  /\ resolved = ResolvedModels
  /\ origin = [i \in DOMAIN users |-> InitialOrigin]
  /\ users0 = users
  /\ ref_users = <<>>
  /\ ref_sinks = <<NoFile, NoFile, NoFile>>
  /\ bf_user_by_email = << >>
  /\ bf_users_with_phone = << >>
  /\ updates = <<>>
  /\ unique_updates = <<>>
  /\ updated = 0

NextTxn ==
  \/ Preload
  \/ MigrateSubscriber
  \/ MigrateSubscriberSMS
  \/ FlushEnter
  \/ BulkCreateRow
  \/ BulkCreateRejected
  \/ FallbackSave
  \/ FlushCommit
  \/ Crash
  \/ ReloadCaches
  \/ Done

SpecTxn == InitTxn /\ [][NextTxn]_vars

\* ------------------------------------------- one snapshot, two flush thresholds
\* thresholds a run is compared under: the small ones and the one of the code
Thresholds == (1..MaxBatch) \cup {FlushThreshold}

\* the command has returned; the same legacy snapshot and the same initial User
\* table are given to a run that differs in `len(buffer) >= 1000` only, in a
\* directory without csv files; the first run's result is kept for comparison
RunWithOtherThreshold ==
  /\ pc = "done"
  /\ run = 1
  /\ ref_users' = users
  /\ ref_sinks' = sinks
  /\ users' = users0
  /\ origin' = [i \in DOMAIN users0 |-> InitialOrigin]
  /\ non_unique_csv' = NoFile
  /\ sub_conflicts_csv' = NoFile
  /\ sms_conflicts_csv' = NoFile
  /\ flush_threshold' \in Thresholds \ {flush_threshold}
  /\ now' = Max(SnapshotTimes) + 1
  /\ run' = 2
  /\ pc' = "start"
  /\ UNCHANGED <<txn, registry, legacy, user_by_email, user_by_phone, buffer, idx,
                 users0, backfill>>

NextBatch ==
  \/ Preload
  \/ MigrateSubscriber
  \/ FinishSubscribers
  \/ MigrateSubscriberSMS
  \/ FinishSubscriberSMS
  \/ RunWithOtherThreshold

SpecBatch == Init /\ [][NextBatch]_vars


\* ===================================================== model resolution, run
\* a small legacy snapshot for the runs that get past the resolution
SampleSubs == <<[email |-> "e1", gdpr_consent |-> TRUE, create_date |-> 1]>>

SampleSms == <<[phone |-> "p1", gdpr_consent |-> FALSE, create_date |-> 1]>>

SampleClients == <<[email |-> "e2", phone |-> "p1"], [email |-> NULL, phone |-> "p1"]>>

\* every model a project may register under the two app labels
AllModels == {<<a, ModelNames[k]>> : a \in AppLabels, k \in DOMAIN ModelNames}

\* the import of the command module: imports, APP_LABEL_SETTING and the
\* definitions of _get_model_by_name and Command; no lookup runs
ImportModule ==
  /\ pc = "unloaded"
  /\ pc' = "imported"
  /\ UNCHANGED <<reference, txn, registry, legacy, users, user_by_email, user_by_phone, buffer,
                 idx, run, flush_threshold, now, sinks, origin, users0, backfill>>

\* the first statement of handle: _resolve_models, its exception ends the run
ResolveModels ==
  /\ pc = "imported"
  /\ IF ResolveError = "none"
       THEN /\ resolved' = ResolvedModels
            /\ pc' = "start"
       ELSE /\ resolved' = resolved
            /\ pc' = "error"
  /\ UNCHANGED <<reference, txn, apps_ready, installed, app_label, legacy, users, user_by_email,
                 user_by_phone, buffer, idx, run, flush_threshold, now, sinks,
                 origin, users0, backfill>>

InitResolve ==
  /\ subs = SampleSubs
  /\ sms = SampleSms
  /\ clients = SampleClients
  /\ users = <<>>
  /\ flush_threshold = 1
  /\ user_by_email = << >>
  /\ user_by_phone = << >>
  /\ buffer = <<>>
  /\ pc = "unloaded"
  /\ idx = 1
  /\ run = 1
  /\ now = Max(SnapshotTimes) + 1
  /\ non_unique_csv = NoFile
  /\ sub_conflicts_csv = NoFile
  /\ sms_conflicts_csv = NoFile
  /\ tx = <<>>
  /\ to_insert = <<>>
  /\ flush_pc = "idle"
  /\ apps_ready \in BOOLEAN
  /\ installed \in SUBSET AllModels
  /\ app_label \in AppLabels \cup {NULL}
  /\ resolved = Unresolved
  /\ origin = <<>>
  /\ users0 = users
  /\ ref_users = <<>>
  /\ ref_sinks = <<NoFile, NoFile, NoFile>>
  /\ bf_user_by_email = << >>
  /\ bf_users_with_phone = << >>
  /\ updates = <<>>
  /\ unique_updates = <<>>
  /\ updated = 0

NextResolve ==
  \/ ImportModule
  \/ ResolveModels
  \/ Preload
  \/ MigrateSubscriber
  \/ FinishSubscribers
  \/ MigrateSubscriberSMS
  \/ FinishSubscriberSMS

SpecResolve == InitResolve /\ [][NextResolve]_vars

\* no installed model has the class name
Missing(n) == \A m \in installed : m[2] # n

\* models of several apps have the class name
Ambiguous(n) == Cardinality({m \in installed : m[2] = n}) > 1

\* handle has not been entered
BeforeHandle == pc \in {"unloaded", "imported"}

\* C15: nothing is resolved by the import of the module; a run whose registry
\* is not ready, or in which a name is missing, or ambiguous with no override,
\* ends in the error state, with the User table and the sinks untouched;
\* a run that goes on holds for each name an installed model of that name,
\* never an empty result, and the model of the override's app when one is set:
\* the override alone decides, so an error under an override means that app
\* lacks a name.
C15_ResolutionGated ==
  LET names == {ModelNames[k] : k \in DOMAIN ModelNames} IN
  /\ BeforeHandle => resolved = Unresolved
  /\ ( /\ ~BeforeHandle
       /\ \/ ~apps_ready
          \/ \E n \in names : Missing(n)
          \/ \E n \in names : Ambiguous(n) /\ app_label = NULL )
     => pc = "error"
  /\ pc = "error" =>
       /\ resolved = Unresolved
       /\ users = users0
       /\ non_unique_csv = NoFile
       /\ sub_conflicts_csv = NoFile
       /\ sms_conflicts_csv = NoFile
       /\ \/ ~apps_ready
          \/ app_label = NULL /\ \E n \in names : Missing(n) \/ Ambiguous(n)
          \/ app_label # NULL /\ \E n \in names : <<app_label, n>> \notin installed
  /\ (~BeforeHandle /\ pc # "error") =>
       \A n \in names :
         /\ resolved[n] \in installed
         /\ resolved[n][2] = n
         /\ app_label # NULL => resolved[n][1] = app_label

\* a run has ended in the error state for an ambiguous name alone
C15_Witness ==
  /\ pc = "error"
  /\ apps_ready
  /\ app_label = NULL
  /\ \A k \in DOMAIN ModelNames : ~Missing(ModelNames[k])
  /\ \E k \in DOMAIN ModelNames : Ambiguous(ModelNames[k])


\* ========================================================= Identity Builder
\* no two rows of a table claim the same email or the same phone
NoDuplicates(us) ==
  \A i, j \in DOMAIN us : i # j =>
    /\ (us[i].email # NULL /\ us[j].email # NULL => us[i].email # us[j].email)
    /\ (us[i].phone # NULL /\ us[j].phone # NULL => us[i].phone # us[j].phone)

\* the row was inserted by the builder
Inserted(i) == origin[i].pass # "init"

\* the Client the email -> Client dict holds for an email: the last one with it
LastClientWithEmail(i, e) ==
  /\ i \in DOMAIN clients
  /\ clients[i].email = e
  /\ \A j \in DOMAIN clients : j > i => clients[j].email # e

\* the number of Clients that carry a phone
Carriers(p) == Cardinality({i \in DOMAIN clients : clients[i].phone = p})

\* C1: after a complete first run (Pass A, then Pass B) that started from a
\* User table without duplicates, no two Users share a non-null email and no
\* two Users share a non-null phone.
C1_NoDuplicateClaims ==
  (pc = "done" /\ run = 1 /\ NoDuplicates(users0)) => NoDuplicates(users)

\* C2: a second run of the whole builder on the unchanged legacy tables and
\* the Users the first run left inserts nothing: from its preload on, the User
\* table of every later run equals the table the run started with.
C2_RerunInsertsNothing == (run >= 2 /\ pc # "start") => users = users0

\* the second run has ended and the first run had inserted Users
C2_Witness == run = 2 /\ pc = "done" /\ \E i \in DOMAIN users : Inserted(i)

\* Pass A is about to process a Subscriber
AtSubscriber == pc = "passA" /\ idx <= Len(subs)

\* Pass B is about to process a SubscriberSMS
AtSubscriberSMS == pc = "passB" /\ idx <= Len(sms)

\* the step creates no User and no candidate
NothingCreated == users' = users /\ buffer' = buffer

\* the step appends one row for the current Subscriber to subscriber_conflicts
SubscriberConflictReported ==
  /\ Len(sub_conflicts_csv'.rows) = Len(sub_conflicts_csv.rows) + 1
  /\ sub_conflicts_csv'.rows[Len(sub_conflicts_csv'.rows)].subscriber_id = idx

\* C6 as stated: whenever Pass A processes a Subscriber with email E2 while a
\* User X has phone P and an email other than E2, and a Client links E2 to P,
\* no User is created for the Subscriber and a conflict row is appended.
C6_ConflictNonCreation_AsStated ==
  [][(AtSubscriber
      /\ \E i \in DOMAIN clients, x \in DOMAIN users :
           /\ clients[i].email = subs[idx].email
           /\ clients[i].phone # NULL
           /\ users[x].phone = clients[i].phone
           /\ users[x].email # subs[idx].email)
     => (NothingCreated /\ SubscriberConflictReported)]_vars

\* C6 amended: whenever Pass A processes a Subscriber with email E2 while no
\* User has email E2, the last Client with email E2 has phone P, no other
\* Client carries P, and a User X has phone P and an email other than E2, no
\* User is created for the Subscriber and a conflict row is appended.
C6_ConflictNonCreation ==
  [][(AtSubscriber
      /\ (\A x \in DOMAIN users : users[x].email # subs[idx].email)
      /\ \E i \in DOMAIN clients, x \in DOMAIN users :
           /\ LastClientWithEmail(i, subs[idx].email)
           /\ clients[i].phone # NULL
           /\ Carriers(clients[i].phone) = 1
           /\ users[x].phone = clients[i].phone
           /\ users[x].email # subs[idx].email)
     => (NothingCreated /\ SubscriberConflictReported)]_vars

\* a conflict row of Pass A is in the sink, for a Subscriber no User came from
C6_Witness ==
  /\ pc = "passA"
  /\ sub_conflicts_csv.rows # <<>>
  /\ \A i \in DOMAIN users : ~(origin[i].pass = "A" /\ origin[i].id = idx - 1)
  /\ sub_conflicts_csv.rows[Len(sub_conflicts_csv.rows)].subscriber_id = idx - 1

\* the step appends at least one row to non_unique_client_phones
NonUniqueReported == Len(non_unique_csv'.rows) > Len(non_unique_csv.rows)

\* C7: when a phone P is on two or more Clients, no User the builder inserts
\* has phone P, and every encounter is reported: a Subscriber (not yet
\* represented) whose matched Client carries P, and a SubscriberSMS with an
\* unclaimed phone P, each create nothing and append to non_unique_client_phones.
C7_NonUniquePhoneSuppression ==
  /\ [](\A i \in DOMAIN users :
          Inserted(i) /\ users[i].phone # NULL => Carriers(users[i].phone) < 2)
  /\ [][(AtSubscriber
         /\ (\A x \in DOMAIN users : users[x].email # subs[idx].email)
         /\ \E i \in DOMAIN clients :
              /\ LastClientWithEmail(i, subs[idx].email)
              /\ clients[i].phone # NULL
              /\ Carriers(clients[i].phone) >= 2)
        => (NothingCreated /\ NonUniqueReported)]_vars
  /\ [][(AtSubscriberSMS
         /\ (\A x \in DOMAIN users : users[x].phone # sms[idx].phone)
         /\ Carriers(sms[idx].phone) >= 2)
        => (NothingCreated /\ NonUniqueReported)]_vars

\* both passes have met an ambiguous phone and reported it, and the run is over
C7_Witness ==
  /\ pc = "done"
  /\ \E p \in Phones : Carriers(p) >= 2
  /\ Len(non_unique_csv.rows) >= Len(NonUniqueRows) + 2
  /\ \E i \in DOMAIN users : Inserted(i)

\* C8: a User created from a Subscriber takes the Subscriber's consent, and
\* has the Subscriber's email and no phone when no Client has that email, the
\* email and phone of a Client with that email otherwise; a User created from
\* a SubscriberSMS mirrors this on the phone.
C8_ConsentTransfer ==
  \A i \in DOMAIN users :
    LET u == users[i]
        o == origin[i]
    IN /\ o.pass = "A" =>
            /\ u.gdpr_consent = subs[o.id].gdpr_consent
            /\ IF \A k \in DOMAIN clients : clients[k].email # subs[o.id].email
                 THEN u.email = subs[o.id].email /\ u.phone = NULL
                 ELSE \E k \in DOMAIN clients :
                        /\ clients[k].email = subs[o.id].email
                        /\ u.email = clients[k].email
                        /\ u.phone = clients[k].phone
       /\ o.pass = "B" =>
            /\ u.gdpr_consent = sms[o.id].gdpr_consent
            /\ IF \A k \in DOMAIN clients : clients[k].phone # sms[o.id].phone
                 THEN u.email = NULL /\ u.phone = sms[o.id].phone
                 ELSE \E k \in DOMAIN clients :
                        /\ clients[k].phone = sms[o.id].phone
                        /\ u.email = clients[k].email
                        /\ u.phone = clients[k].phone

\* Users with consent given exist from a bare Subscriber, from a Subscriber
\* with a Client and from a SubscriberSMS
C8_Witness ==
  /\ \E i \in DOMAIN users :
       origin[i].pass = "A" /\ users[i].phone = NULL /\ users[i].gdpr_consent
  /\ \E i \in DOMAIN users :
       origin[i].pass = "A" /\ users[i].phone # NULL /\ users[i].gdpr_consent
  /\ \E i \in DOMAIN users : origin[i].pass = "B" /\ users[i].gdpr_consent

\* C10: no step of a builder run changes the Subscriber, SubscriberSMS or
\* Client table, and every User row stays in place with the same email, phone,
\* consent and create_date: the User table only grows at its end.
C10_BuilderFrame ==
  [][/\ subs' = subs
     /\ sms' = sms
     /\ clients' = clients
     /\ Len(users') >= Len(users)
     /\ SubSeq(users', 1, Len(users)) = users]_vars

\* Users were inserted into a table that already held one
C10_Witness == Len(users0) > 0 /\ Len(users) > Len(users0) /\ run = 1


\* C11: the User table changes only when a flush commits, and then by the
\* complete set of rows the flush inserts: a flush that crashes or fails, at
\* whatever statement, leaves none of its rows in the table.
C11_BatchAtomicity ==
  [][users' # users =>
       (flush_pc = "caches" /\ users' = users \o UsersOf(to_insert))]_vars

\* a flush of two rows has written one of them, and the table shows neither
C11_Witness ==
  /\ flush_pc = "bulk_create"
  /\ Len(to_insert) = 2
  /\ Len(tx) = 1
  /\ users = users0

\* C12: when bulk_create is rejected with IntegrityError the run does not
\* abort: from the fallback on, every step of the flush (short of a crash of
\* the process) saves or drops a candidate, or goes on to commit the flush.
C12_UniquenessAbsorbed ==
  [][(flush_pc = "fallback" /\ pc' # "crashed") =>
       (pc' = pc /\ flush_pc' \in {"fallback", "caches"})]_vars


\* a step leaves the file in place and every row of it where it was
AppendedOnly(file, file2) ==
  /\ file.exists => file2.exists
  /\ Len(file.rows) <= Len(file2.rows)
  /\ SubSeq(file2.rows, 1, Len(file.rows)) = file.rows

\* C14: each of the three sinks only grows: no step of any run removes the
\* file or a row of it, so a row once in a sink is in it at every later point.
C14_SinksAccumulate ==
  [][/\ AppendedOnly(non_unique_csv, non_unique_csv')
     /\ AppendedOnly(sub_conflicts_csv, sub_conflicts_csv')
     /\ AppendedOnly(sms_conflicts_csv, sms_conflicts_csv')]_vars


\* the step appends one row for the current SubscriberSMS to subscribersms_conflicts
SmsConflictReported ==
  /\ Len(sms_conflicts_csv'.rows) = Len(sms_conflicts_csv.rows) + 1
  /\ sms_conflicts_csv'.rows[Len(sms_conflicts_csv'.rows)].subscribersms_id = idx

\* Pass B is at a SubscriberSMS whose phone no User has and exactly one Client
\* carries, that Client has an email, and a User has that email and no phone
PhonelessEmailOwner ==
  /\ AtSubscriberSMS
  /\ \A x \in DOMAIN users : users[x].phone # sms[idx].phone
  /\ Carriers(sms[idx].phone) = 1
  /\ \E i \in DOMAIN clients, x \in DOMAIN users :
       /\ clients[i].phone = sms[idx].phone
       /\ clients[i].email # NULL
       /\ users[x].email = clients[i].email
       /\ users[x].phone = NULL

Produced(email, phone, consent) ==
  LET is(u) == u.email = email /\ u.phone = phone /\ u.gdpr_consent = consent IN
  \/ Len(buffer') = Len(buffer) + 1 /\ is(buffer'[Len(buffer')].u)
  \/ Len(users') > Len(users) /\ is(users'[Len(users')])

\* C19: Pass B appends a conflict row for a SubscriberSMS only if the one
\* Client with its phone has an email and some User has that email and another
\* phone; and for an unclaimed phone whose one Client has no email it appends
\* none and produces the candidate (no email, the phone, the record's consent).
C19_RealClashOnly ==
  [][AtSubscriberSMS =>
       /\ sms_conflicts_csv' # sms_conflicts_csv =>
            \E i \in DOMAIN clients, x \in DOMAIN users :
              /\ clients[i].phone = sms[idx].phone
              /\ Carriers(sms[idx].phone) = 1
              /\ clients[i].email # NULL
              /\ users[x].email = clients[i].email
              /\ users[x].phone # clients[i].phone
       /\ ( /\ \A x \in DOMAIN users : users[x].phone # sms[idx].phone
            /\ Carriers(sms[idx].phone) = 1
            /\ \E i \in DOMAIN clients :
                 clients[i].phone = sms[idx].phone /\ clients[i].email = NULL )
          => /\ sms_conflicts_csv' = sms_conflicts_csv
             /\ Produced(NULL, sms[idx].phone, sms[idx].gdpr_consent)]_vars


\* the lookups hold every email and every phone of the User table
CachesTrackStore ==
  \A i \in DOMAIN users :
    /\ users[i].email # NULL => users[i].email \in DOMAIN user_by_email
    /\ users[i].phone # NULL =>
         /\ users[i].phone \in DOMAIN user_by_phone
         /\ \E k \in DOMAIN user_by_phone[users[i].phone] :
              user_by_phone[users[i].phone][k] = users[i]

\* the step writes to no sink
NothingReported == UNCHANGED sinks

\* C20: from the preload on, between the steps of both passes (so after every
\* flush and after the reload), every User's email is a key of the email
\* lookup and every User's phone holds it in the phone lookup; a Subscriber
\* whose email a User has, and a SubscriberSMS whose phone a User has, is
\* skipped; and no row is inserted whose email or phone was in the lookups
\* when its flush began.
C20_CachesTrackStore ==
  /\ [](pc \in {"passA", "passB", "done"} => CachesTrackStore)
  /\ [][(AtSubscriber /\ \E x \in DOMAIN users : users[x].email = subs[idx].email)
        => (NothingCreated /\ NothingReported)]_vars
  /\ [][(AtSubscriberSMS /\ \E x \in DOMAIN users : users[x].phone = sms[idx].phone)
        => (NothingCreated /\ NothingReported)]_vars
  /\ [][\A k \in (Len(users) + 1)..Len(users') :
          /\ users'[k].email # NULL => users'[k].email \notin DOMAIN user_by_email
          /\ users'[k].phone # NULL => ~PhoneClaimed(users'[k].phone)]_vars

\* the first of two Subscribers with one email was flushed on its own and
\* the second was then skipped
C20_Witness ==
  /\ pc = "passA"
  /\ flush_threshold = 1
  /\ Len(subs) = 2
  /\ idx = 3
  /\ subs[1].email = subs[2].email
  /\ \E i \in DOMAIN users : origin[i] = [pass |-> "A", id |-> 1]
  /\ \A i \in DOMAIN users : origin[i] # [pass |-> "A", id |-> 2]

\* the rows the step's source record leads to: the Client a not yet
\* represented Subscriber matches by email, when its phone is ambiguous; every
\* Client carrying the ambiguous, unclaimed phone of a SubscriberSMS
EncounteredRows ==
  IF AtSubscriber /\ (\A x \in DOMAIN users : users[x].email # subs[idx].email)
    THEN LET hit == {i \in DOMAIN clients :
                       /\ LastClientWithEmail(i, subs[idx].email)
                       /\ clients[i].phone # NULL
                       /\ Carriers(clients[i].phone) >= 2}
             ids == [i \in DOMAIN clients |-> i]
             isHit(i) == i \in hit
             sel == SelectSeq(ids, isHit)
         IN [k \in DOMAIN sel |-> ClientRow(sel[k])]
  ELSE IF AtSubscriberSMS /\ (\A x \in DOMAIN users : users[x].phone # sms[idx].phone)
                          /\ Carriers(sms[idx].phone) >= 2
    THEN LET ids == [i \in DOMAIN clients |-> i]
             carries(i) == clients[i].phone = sms[idx].phone
             sel == SelectSeq(ids, carries)
         IN [k \in DOMAIN sel |-> ClientRow(sel[k])]
  ELSE <<>>

\* C22: within one builder run, every step adds to non_unique_client_phones
\* exactly the rows of the Clients its source record leads to, one per Client
\* and ambiguous phone; a step that processes no such record (the preload
\* among them) adds none, so a Client no record leads to has no row.
C22_NonUniqueReportContent ==
  [][run = 1 => non_unique_csv'.rows = non_unique_csv.rows \o EncounteredRows]_vars

\* what identifies a User apart from create_date, the clock at buffering time
IdentityOf(u) == <<u.email, u.phone, u.gdpr_consent>>

\* two User tables hold the same multiset of Identities
SameIdentities(a, b) ==
  \A r \in {IdentityOf(a[i]) : i \in DOMAIN a} \cup {IdentityOf(b[i]) : i \in DOMAIN b} :
    Cardinality({i \in DOMAIN a : IdentityOf(a[i]) = r})
      = Cardinality({i \in DOMAIN b : IdentityOf(b[i]) = r})

\* the rows of the three csv files
SinkRows(s) == <<s[1].rows, s[2].rows, s[3].rows>>

\* C23: two complete builder runs on the same legacy snapshot and the same
\* initial User table, in the same order, that differ in the flush threshold
\* only, end with the same multiset of Users and the same rows in the
\* conflict and non-unique files.
C23_BatchBoundaries ==
  (pc = "done" /\ run = 2) =>
    /\ SameIdentities(ref_users, users)
    /\ SinkRows(ref_sinks) = SinkRows(sinks)


\* ========================================================== Consent Backfill
\* ---------------------------------------------------------- value domains
BfEmails == {"e1"}
BfPhones == {"p1"}
\* a create_date that is None
NoTime == 0

BfUserRows == [email : BfEmails \cup {NULL}, phone : BfPhones \cup {NULL},
               gdpr_consent : BOOLEAN, create_date : Times]

BfSubscriberRows == [email : BfEmails, gdpr_consent : BOOLEAN, create_date : Times]

BfSubscriberSMSRows == [phone : BfPhones, gdpr_consent : BOOLEAN, create_date : Times]

BfClientRows == [email : BfEmails \cup {NULL}, phone : BfPhones \cup {NULL}]

\* ---------------------------------------------------------------- preload
\* the Python object a queryset yields for row i; each queryset yields its own
UserObject(us, i) ==
  [id |-> i, email |-> us[i].email, phone |-> us[i].phone,
   gdpr_consent |-> us[i].gdpr_consent, create_date |-> us[i].create_date]

\* {u.email: u for u in User.objects... if u.email}: last row wins
BfUserByEmail(us) ==
  [e \in {us[i].email : i \in DOMAIN us} \ {NULL} |->
     UserObject(us, Max({i \in DOMAIN us : us[i].email = e}))]

\* {u.phone: u for u in User.objects... if u.phone}: a second query, last row wins
BfUsersWithPhone(us) ==
  [p \in {us[i].phone : i \in DOMAIN us} \ {NULL} |->
     UserObject(us, Max({i \in DOMAIN us : us[i].phone = p}))]

\* a staged list holds references to the objects of the two dicts
EmailRef(e) == [map |-> "email", key |-> e]

PhoneRef(p) == [map |-> "phone", key |-> p]

Deref(ref) ==
  IF ref.map = "email" THEN bf_user_by_email[ref.key] ELSE bf_users_with_phone[ref.key]

\* ------------------------------------------------------------ rules 1 and 2
\* mutant: >= instead of >
NewerOrSame(t, ut) == t # NoTime /\ ut # NoTime /\ t >= ut

\* s.create_date and u.create_date and s.create_date > u.create_date
Newer(t, ut) == t # NoTime /\ ut # NoTime /\ t > ut

\* the two nested ifs of a rule: newer, and a different consent
Stages(r, u) == Newer(r.create_date, u.create_date) /\ u.gdpr_consent # r.gdpr_consent

\* ------------------------------------------------------------------- merge
\* unique_updates: the first staged object of each id
UniqueUpdates(upd) ==
  LET ks == [k \in DOMAIN upd |-> k]
      first(k) == \A j \in 1..(k - 1) : Deref(upd[j]).id # Deref(upd[k]).id
      sel == SelectSeq(ks, first)
  IN [k \in DOMAIN sel |-> upd[sel[k]]]

\* list(user_by_email.values()): the keys in the order the dict got them
CandidateKeys ==
  LET ks == [i \in DOMAIN users |-> i]
      first(i) == /\ users[i].email # NULL
                  /\ \A j \in 1..(i - 1) : users[j].email # users[i].email
      sel == SelectSeq(ks, first)
  IN [k \in DOMAIN sel |-> users[sel[k]].email]

\* next((x for x in subs if x.email == email), None): its id, 0 for None
FirstSub(e) ==
  LET hit == {k \in DOMAIN subs : subs[k].email = e}
  IN IF hit = {} THEN 0 ELSE CHOOSE k \in hit : \A j \in hit : k <= j

\* next((x for x in sms_list if x.phone == phone), None): its id, 0 for None
FirstSms(p) ==
  LET hit == {k \in DOMAIN sms : sms[k].phone = p}
  IN IF hit = {} THEN 0 ELSE CHOOSE k \in hit : \A j \in hit : k <= j

\* the guards of the merge loop, up to `if not (s and sm): continue`
MergeApplies(u) ==
  /\ u.email # NULL
  /\ u.phone # NULL
  /\ u.email \in DOMAIN ClientByEmail
  /\ clients[ClientByEmail[u.email]].phone = u.phone
  /\ FirstSub(u.email) # 0
  /\ FirstSms(u.phone) # 0

\* key=lambda t: t[1] or u.create_date
MergeKey(t, u) == IF t # NoTime THEN t ELSE u.create_date

\* max() compares the keys with >, which raises TypeError on None
MergeRaises(u) ==
  /\ MergeApplies(u)
  /\ \/ MergeKey(subs[FirstSub(u.email)].create_date, u) = NoTime
     \/ MergeKey(sms[FirstSms(u.phone)].create_date, u) = NoTime

\* latest[0]: max() keeps the first of [sub, sms] unless the second key is greater
LatestConsent(u) ==
  LET s == subs[FirstSub(u.email)]
      m == sms[FirstSms(u.phone)]
  IN IF MergeKey(m.create_date, u) > MergeKey(s.create_date, u)
       THEN m.gdpr_consent
       ELSE s.gdpr_consent

\* the merge loop changes the object and appends it
MergeStages(u) == MergeApplies(u) /\ LatestConsent(u) # u.gdpr_consent

\* ------------------------------------------------------------- bulk_update
\* final_updates[u.id] = u for u in unique_updates: the last object of each id
FinalUpdates ==
  [i \in {Deref(unique_updates[k]).id : k \in DOMAIN unique_updates} |->
     Deref(unique_updates[Max({k \in DOMAIN unique_updates :
                                 Deref(unique_updates[k]).id = i})])]

\* mutant: the update stamps the row, as an auto_now column would
BulkUpdateTouch(us, final) ==
  [i \in DOMAIN us |->
     IF i \in DOMAIN final
       THEN [us[i] EXCEPT !.gdpr_consent = final[i].gdpr_consent, !.create_date = MaxTime]
       ELSE us[i]]

\* User.objects.bulk_update(final_updates.values(), ["gdpr_consent"])
BulkUpdate(us, final) ==
  [i \in DOMAIN us |->
     IF i \in DOMAIN final
       THEN [us[i] EXCEPT !.gdpr_consent = final[i].gdpr_consent]
       ELSE us[i]]

\* ----------------------------------------------------------------- actions
\* handle: the preload of the dicts and lists
BfPreload ==
  /\ pc = "bf_start"
  /\ bf_user_by_email' = BfUserByEmail(users)
  /\ bf_users_with_phone' = BfUsersWithPhone(users)
  /\ updates' = <<>>
  /\ unique_updates' = <<>>
  /\ users0' = users
  /\ idx' = 1
  /\ pc' = "bf_rule1"
  /\ UNCHANGED <<reference, txn, registry, legacy, users, run, sinks, builder, updated>>

\* rule 1: one iteration of `for s in subs`, or the end of the loop
BfRule1 ==
  /\ pc = "bf_rule1"
  /\ IF idx <= Len(subs)
       THEN /\ idx' = idx + 1
            /\ pc' = pc
            /\ LET s == subs[idx] IN
               IF s.email \in DOMAIN bf_user_by_email
                  /\ Stages(s, bf_user_by_email[s.email])
                 THEN /\ bf_user_by_email' =
                           [bf_user_by_email EXCEPT ![s.email].gdpr_consent = s.gdpr_consent]
                      /\ updates' = Append(updates, EmailRef(s.email))
                 ELSE UNCHANGED <<bf_user_by_email, updates>>
       ELSE /\ idx' = 1
            /\ pc' = "bf_rule2"
            /\ UNCHANGED <<bf_user_by_email, updates>>
  /\ UNCHANGED <<reference, txn, registry, legacy, users, run, sinks, builder, bf_users_with_phone,
                 unique_updates, updated, users0>>

\* rule 2: one iteration of `for sm in sms_list`, or the end of the loop
BfRule2 ==
  /\ pc = "bf_rule2"
  /\ IF idx <= Len(sms)
       THEN /\ idx' = idx + 1
            /\ pc' = pc
            /\ LET sm == sms[idx] IN
               IF sm.phone \in DOMAIN bf_users_with_phone
                  /\ Stages(sm, bf_users_with_phone[sm.phone])
                 THEN /\ bf_users_with_phone' =
                           [bf_users_with_phone EXCEPT ![sm.phone].gdpr_consent = sm.gdpr_consent]
                      /\ updates' = Append(updates, PhoneRef(sm.phone))
                 ELSE UNCHANGED <<bf_users_with_phone, updates>>
       ELSE /\ idx' = 1
            /\ pc' = "bf_merge"
            /\ UNCHANGED <<bf_users_with_phone, updates>>
  /\ UNCHANGED <<reference, txn, registry, legacy, users, run, sinks, builder, bf_user_by_email,
                 unique_updates, updated, users0>>

\* 3: unique_updates, then the merge loop over the objects of user_by_email
BfMerge ==
  /\ pc = "bf_merge"
  /\ IF \E e \in DOMAIN bf_user_by_email : MergeRaises(bf_user_by_email[e])
       THEN /\ pc' = "bf_failed"
            /\ UNCHANGED <<bf_user_by_email, unique_updates>>
       ELSE LET stage(e) == MergeStages(bf_user_by_email[e])
                staged == SelectSeq(CandidateKeys, stage)
            IN /\ bf_user_by_email' =
                    [e \in DOMAIN bf_user_by_email |->
                       IF stage(e)
                         THEN [bf_user_by_email[e] EXCEPT
                                 !.gdpr_consent = LatestConsent(bf_user_by_email[e])]
                         ELSE bf_user_by_email[e]]
               /\ unique_updates' =
                    UniqueUpdates(updates) \o [k \in DOMAIN staged |-> EmailRef(staged[k])]
               /\ pc' = "bf_write"
  /\ UNCHANGED <<reference, txn, registry, legacy, users, run, idx, sinks, builder, bf_users_with_phone,
                 updates, updated, users0>>

\* final_updates and the bulk_update of gdpr_consent
BfBulkUpdate ==
  /\ pc = "bf_write"
  /\ users' = BulkUpdate(users, FinalUpdates)
  /\ updated' = Cardinality(DOMAIN FinalUpdates)
  /\ pc' = "bf_done"
  /\ UNCHANGED <<reference, txn, registry, legacy, run, idx, sinks, builder, bf_user_by_email,
                 bf_users_with_phone, updates, unique_updates, users0>>

\* the command is invoked again on the same tables
BfRunAgain ==
  /\ pc = "bf_done"
  /\ run < MaxRuns
  /\ run' = run + 1
  /\ pc' = "bf_start"
  /\ UNCHANGED <<reference, txn, registry, legacy, users, idx, sinks, builder, backfill, users0>>

\* ----------------------------------------------------------- specification
InitBackfill ==
  /\ subs \in SeqsUpTo(BfSubscriberRows, MaxSubs)
  /\ sms \in SeqsUpTo(BfSubscriberSMSRows, MaxSms)
  /\ clients \in SeqsUpTo(BfClientRows, MaxClients)
  /\ users \in SeqsUpTo(BfUserRows, MaxUsers)
  /\ flush_threshold = 1
  /\ user_by_email = << >>
  /\ user_by_phone = << >>
  /\ buffer = <<>>
  /\ pc = "bf_start"
  /\ idx = 1
  /\ run = 1
  /\ now = MaxTime
  /\ non_unique_csv = NoFile
  /\ sub_conflicts_csv = NoFile
  /\ sms_conflicts_csv = NoFile
  /\ tx = <<>>
  /\ to_insert = <<>>
  /\ flush_pc = "idle"
  /\ apps_ready = TRUE
  /\ installed = CoreModels
  /\ app_label = NULL
  /\ resolved = ResolvedModels
  /\ origin = [i \in DOMAIN users |-> InitialOrigin]
  /\ users0 = users
  /\ ref_users = <<>>
  /\ ref_sinks = <<NoFile, NoFile, NoFile>>
  /\ bf_user_by_email = << >>
  /\ bf_users_with_phone = << >>
  /\ updates = <<>>
  /\ unique_updates = <<>>
  /\ updated = 0

NextBackfill ==
  \/ BfPreload
  \/ BfRule1
  \/ BfRule2
  \/ BfMerge
  \/ BfBulkUpdate
  \/ BfRunAgain

SpecBackfill == InitBackfill /\ [][NextBackfill]_vars

\* ------------------------------------------- tables with a create_date of None
TimesOrNone == Times \cup {NoTime}

MissingUserRows == [email : BfEmails \cup {NULL}, phone : BfPhones \cup {NULL},
                    gdpr_consent : BOOLEAN, create_date : TimesOrNone]

MissingSubscriberRows == [email : BfEmails, gdpr_consent : BOOLEAN, create_date : TimesOrNone]

MissingSubscriberSMSRows == [phone : BfPhones, gdpr_consent : BOOLEAN, create_date : TimesOrNone]

InitBackfillMissing ==
  /\ subs \in SeqsUpTo(MissingSubscriberRows, MaxSubs)
  /\ sms \in SeqsUpTo(MissingSubscriberSMSRows, MaxSms)
  /\ clients \in SeqsUpTo(BfClientRows, MaxClients)
  /\ users \in SeqsUpTo(MissingUserRows, MaxUsers)
  /\ flush_threshold = 1
  /\ user_by_email = << >>
  /\ user_by_phone = << >>
  /\ buffer = <<>>
  /\ pc = "bf_start"
  /\ idx = 1
  /\ run = 1
  /\ now = MaxTime
  /\ non_unique_csv = NoFile
  /\ sub_conflicts_csv = NoFile
  /\ sms_conflicts_csv = NoFile
  /\ tx = <<>>
  /\ to_insert = <<>>
  /\ flush_pc = "idle"
  /\ apps_ready = TRUE
  /\ installed = CoreModels
  /\ app_label = NULL
  /\ resolved = ResolvedModels
  /\ origin = [i \in DOMAIN users |-> InitialOrigin]
  /\ users0 = users
  /\ ref_users = <<>>
  /\ ref_sinks = <<NoFile, NoFile, NoFile>>
  /\ bf_user_by_email = << >>
  /\ bf_users_with_phone = << >>
  /\ updates = <<>>
  /\ unique_updates = <<>>
  /\ updated = 0

SpecBackfillMissing == InitBackfillMissing /\ [][NextBackfill]_vars

\* some legacy record matching User i carries a create_date
DatedMatch(i) ==
  \/ \E k \in DOMAIN subs :
       /\ users0[i].email # NULL
       /\ subs[k].email = users0[i].email
       /\ subs[k].create_date # NoTime
  \/ \E k \in DOMAIN sms :
       /\ users0[i].phone # NULL
       /\ sms[k].phone = users0[i].phone
       /\ sms[k].create_date # NoTime

\* C13: a create_date of None, on a legacy record or on a User, never makes
\* the run fail, and a legacy record without create_date never changes a
\* consent: a User whose matching legacy records all lack it keeps its consent.
C13_MissingTimestamps ==
  /\ pc # "bf_failed"
  /\ pc = "bf_done" =>
       \A i \in DOMAIN users :
         users[i].gdpr_consent # users0[i].gdpr_consent => DatedMatch(i)

\* a legacy record matching User i is strictly newer than the User
NewerMatch(i) ==
  \/ \E k \in DOMAIN subs :
       /\ users0[i].email # NULL
       /\ subs[k].email = users0[i].email
       /\ subs[k].create_date > users0[i].create_date
  \/ \E k \in DOMAIN sms :
       /\ users0[i].phone # NULL
       /\ sms[k].phone = users0[i].phone
       /\ sms[k].create_date > users0[i].create_date

\* User i has an email and a phone, a Client carries both, a Subscriber has
\* the email and a SubscriberSMS the phone
MergeCase(i) ==
  /\ users0[i].email # NULL
  /\ users0[i].phone # NULL
  /\ \E k \in DOMAIN clients :
       clients[k].email = users0[i].email /\ clients[k].phone = users0[i].phone
  /\ \E k \in DOMAIN subs : subs[k].email = users0[i].email
  /\ \E k \in DOMAIN sms : sms[k].phone = users0[i].phone

\* C3: a second backfill run on unchanged legacy tables leaves every User's
\* consent as the first run left it.
C3_BackfillIdempotent == (pc = "bf_done" /\ run = 2) => users = users0

C5_MergeOutcome ==
  pc = "bf_done" =>
    \A i \in DOMAIN users, k \in DOMAIN subs, j \in DOMAIN sms :
      ( /\ MergeCase(i)
        /\ \A c \in DOMAIN clients :
             clients[c].email = users[i].email => clients[c].phone = users[i].phone
        /\ subs[k].email = users[i].email
        /\ sms[j].phone = users[i].phone
        /\ \A k2 \in DOMAIN subs : subs[k2].email = users[i].email => k2 = k
        /\ \A j2 \in DOMAIN sms : sms[j2].phone = users[i].phone => j2 = j
        /\ subs[k].create_date # sms[j].create_date )
      => users[i].gdpr_consent =
           (IF subs[k].create_date > sms[j].create_date
              THEN subs[k].gdpr_consent
              ELSE sms[j].gdpr_consent)

\* C9: no step of a backfill run inserts or deletes a User or changes a
\* User's email, phone or create_date, and the Subscriber, SubscriberSMS and
\* Client tables stay as they are.
C9_BackfillFrame ==
  [][/\ subs' = subs
     /\ sms' = sms
     /\ clients' = clients
     /\ DOMAIN users' = DOMAIN users
     /\ \A i \in DOMAIN users :
          /\ users'[i].email = users[i].email
          /\ users'[i].phone = users[i].phone
          /\ users'[i].create_date = users[i].create_date]_vars

\* a run has written a consent
C9_Witness == pc = "bf_done" /\ updated > 0 /\ users # users0

\* C16: for a User outside the merge case that a strictly newer Subscriber
\* matches on the email and exactly one SubscriberSMS, strictly newer, matches
\* on the phone, rule 2 is the last rule to stage: after the run the User has
\* the consent of that SubscriberSMS; and one update is written per User id.
C16_LastRuleWins ==
  pc = "bf_done" =>
    /\ updated <= Len(users)
    /\ \A i \in DOMAIN users, j \in DOMAIN sms :
         ( /\ ~MergeCase(i)
           /\ users0[i].email # NULL
           /\ users0[i].phone # NULL
           /\ \E k \in DOMAIN subs :
                /\ subs[k].email = users0[i].email
                /\ subs[k].create_date > users0[i].create_date
           /\ sms[j].phone = users0[i].phone
           /\ sms[j].create_date > users0[i].create_date
           /\ \A j2 \in DOMAIN sms : sms[j2].phone = users0[i].phone => j2 = j )
         => users[i].gdpr_consent = sms[j].gdpr_consent

\* ------------------------------------------ Users that share an email or a phone
\* up to MaxSharers Users, and up to MaxShared rows in each legacy table
InitBackfillShared ==
  /\ subs \in SeqsUpTo(BfSubscriberRows, MaxShared)
  /\ sms \in SeqsUpTo(BfSubscriberSMSRows, MaxShared)
  /\ clients \in SeqsUpTo(BfClientRows, MaxShared)
  /\ users \in SeqsUpTo(BfUserRows, MaxSharers)
  /\ flush_threshold = 1
  /\ user_by_email = << >>
  /\ user_by_phone = << >>
  /\ buffer = <<>>
  /\ pc = "bf_start"
  /\ idx = 1
  /\ run = 1
  /\ now = MaxTime
  /\ non_unique_csv = NoFile
  /\ sub_conflicts_csv = NoFile
  /\ sms_conflicts_csv = NoFile
  /\ tx = <<>>
  /\ to_insert = <<>>
  /\ flush_pc = "idle"
  /\ apps_ready = TRUE
  /\ installed = CoreModels
  /\ app_label = NULL
  /\ resolved = ResolvedModels
  /\ origin = [i \in DOMAIN users |-> InitialOrigin]
  /\ users0 = users
  /\ ref_users = <<>>
  /\ ref_sinks = <<NoFile, NoFile, NoFile>>
  /\ bf_user_by_email = << >>
  /\ bf_users_with_phone = << >>
  /\ updates = <<>>
  /\ unique_updates = <<>>
  /\ updated = 0

SpecBackfillShared == InitBackfillShared /\ [][NextBackfill]_vars

\* no Subscriber has the email of User i
NoEmailMatch(i) ==
  users0[i].email = NULL \/ \A k \in DOMAIN subs : subs[k].email # users0[i].email

\* no SubscriberSMS has the phone of User i
NoPhoneMatch(i) ==
  users0[i].phone = NULL \/ \A j \in DOMAIN sms : sms[j].phone # users0[i].phone

\* C17: after a run, every User with a phone, no email match and no merge
\* case, whose phone is on exactly one SubscriberSMS, strictly newer than the
\* User, has the consent of that SubscriberSMS, also when several Users share
\* the phone; and the same for the email and exactly one newer Subscriber.
C17_EveryIdentity ==
  pc = "bf_done" =>
    /\ \A i \in DOMAIN users, j \in DOMAIN sms :
         ( /\ users0[i].phone # NULL
           /\ NoEmailMatch(i)
           /\ ~MergeCase(i)
           /\ sms[j].phone = users0[i].phone
           /\ sms[j].create_date > users0[i].create_date
           /\ \A j2 \in DOMAIN sms : sms[j2].phone = users0[i].phone => j2 = j )
         => users[i].gdpr_consent = sms[j].gdpr_consent
    /\ \A i \in DOMAIN users, k \in DOMAIN subs :
         ( /\ users0[i].email # NULL
           /\ NoPhoneMatch(i)
           /\ ~MergeCase(i)
           /\ subs[k].email = users0[i].email
           /\ subs[k].create_date > users0[i].create_date
           /\ \A k2 \in DOMAIN subs : subs[k2].email = users0[i].email => k2 = k )
         => users[i].gdpr_consent = subs[k].gdpr_consent

\* C21: a backfill run that follows another on unchanged legacy tables stages
\* nothing: no object is passed to bulk_update and the reported count is 0,
\* also when Subscribers with different consents share a User's email.
C21_SecondRunStagesNothing ==
  (run >= 2 /\ pc \in {"bf_write", "bf_done"}) =>
    /\ unique_updates = <<>>
    /\ pc = "bf_done" => updated = 0

====
